---- MODULE Spec2Model ----
(***************************************************************************)
(* GroverComparator (src/grover_comparator.py): a comparator object built  *)
(* from two integers, whose check_larger_or_equal() builds a Grover        *)
(* circuit (Hadamard layer, oracle/diffuser pairs, measurement), hands it  *)
(* to a sampler, scans the returned distribution for its most likely       *)
(* outcome and returns diff >= 0.                                          *)
(*                                                                         *)
(* Amplitudes are exact: a state vector is a record [amp, h] standing for  *)
(* the vector amp[i] / sqrt(2)^h, with amp an integer function on          *)
(* 0..2^n-1, kept in lowest terms.                                         *)
(***************************************************************************)
EXTENDS Integers, Sequences, FiniteSets, TLC

VARIABLES number_1, number_2, diff, nqubits, nstates, qc,
          pc, calls, niterations, it,
          psi, ip, vin,
          counts, k, max_key, max_value, result

vars == <<number_1, number_2, diff, nqubits, nstates, qc, pc, calls,
          niterations, it, psi, ip, vin, counts, k, max_key, max_value, result>>

(* ------------------------------ bounds -------------------------------- *)

\* The two numbers of the main specification are drawn from -MaxNum..MaxNum.
MaxNum == 4

\* How many times check_larger_or_equal may be called on one object.
MaxCalls == 2

\* Widest register for which the allocation of the oracle's 2^n x 2^n matrix
\* is taken to succeed on every machine.
SureAllocQubits == 12

\* A number whose difference to the small ones needs 31 bits.
BigNum == 1073741824

\* number_1 of the iteration-count specification ranges over 0..MaxIterNum.
MaxIterNum == 255

\* Register widths of the diffuser specification: 2..MaxDiffQubits.
MaxDiffQubits == 5

\* Entries and probability values of the distributions handed to the
\* most-likely-outcome scan in its own specification.
MaxEntries == 3

MaxProbVal == 2

(* --------------------------- Python values ---------------------------- *)

\* max_key = None
NoKey == -1

\* max_value = float('-inf'): below every quasi-probability of a state vector
NegInf == -1

Abs(x) == IF x < 0 THEN -x ELSE x

Max(x, y) == IF x >= y THEN x ELSE y

\* int.bit_length(): the number of binary digits of a non-negative integer
RECURSIVE bit_length(_)
bit_length(x) == IF x = 0 THEN 0 ELSE 1 + bit_length(x \div 2)

\* The value of a one-element set. The operators below bind an intermediate
\* value as the element of a singleton, so that it is computed once and not
\* once per use.
The(S) == CHOOSE r \in S : TRUE

\* Python integers beyond 2^31 - 1 are kept as their binary digits, least
\* significant first. 2 ** n:
BigPow2(n) == [i \in 1 .. (n + 1) |-> IF i = n + 1 THEN 1 ELSE 0]

\* the exponent n of a power of two 2 ** n
BigLog2(N) == Len(N) - 1

(* ------------------------- state vectors, gates ------------------------ *)

Bit(i, q) == (i \div (2 ^ q)) % 2

Flip(i, q) == IF Bit(i, q) = 0 THEN i + 2 ^ q ELSE i - 2 ^ q

\* the all-zeros basis state of an n-qubit register
Ground(n) == [amp |-> [i \in 0 .. (2 ^ n - 1) |-> IF i = 0 THEN 1 ELSE 0], h |-> 0]

AllEven(a) == \A i \in DOMAIN a : a[i] % 2 = 0

\* amp / sqrt(2)^h in lowest terms
RECURSIVE Reduce(_)
Reduce(s) ==
    The({IF t.h >= 2 /\ AllEven(t.amp)
         THEN Reduce([amp |-> [i \in DOMAIN t.amp |-> t.amp[i] \div 2], h |-> t.h - 2])
         ELSE t : t \in {s}})

\* Hadamard gate on qubit q
HGateUnnormalised(s, q) ==
    The({[amp |-> [i \in DOMAIN t.amp |->
                      IF Bit(i, q) = 0 THEN t.amp[i] + t.amp[Flip(i, q)]
                                       ELSE t.amp[Flip(i, q)] - t.amp[i]],
          h |-> t.h] : t \in {s}})

HGate(s, q) ==
    The({Reduce([amp |-> [i \in DOMAIN t.amp |->
                             IF Bit(i, q) = 0 THEN t.amp[i] + t.amp[Flip(i, q)]
                                              ELSE t.amp[Flip(i, q)] - t.amp[i]],
                 h |-> t.h + 1]) : t \in {s}})

\* Pauli-X gate on qubit q
XGate(s, q) ==
    The({[amp |-> [i \in DOMAIN t.amp |-> t.amp[Flip(i, q)]], h |-> t.h] : t \in {s}})

\* multi-controlled X: flips qubit t where every control qubit is 1
MCXGateDropped(s, ctrl, tgt) == s

MCXGate(s, ctrl, tgt) ==
    The({[amp |-> [i \in DOMAIN t.amp |->
                      IF \A c \in ctrl : Bit(i, c) = 1 THEN t.amp[Flip(i, tgt)]
                                                       ELSE t.amp[i]],
          h |-> t.h] : t \in {s}})

\* a gate applied to each qubit of 0..n-1 in turn
RECURSIVE HRange(_, _)
HRange(s, n) == IF n = 0 THEN s ELSE HGate(HRange(s, n - 1), n - 1)

RECURSIVE XRange(_, _)
XRange(s, n) == IF n = 0 THEN s ELSE XGate(XRange(s, n - 1), n - 1)

\* the diagonal of gate_matrix: the identity with entry [i][i] set to -1
gate_matrixUnmarked(n, i) == [j \in 0 .. (2 ^ n - 1) |-> 1]

gate_matrix(n, i) == [j \in 0 .. (2 ^ n - 1) |-> IF j = i THEN -1 ELSE 1]

\* qc.unitary(Operator(gate_matrix), range(nqubits)) on a state vector
Unitary(s, g) ==
    The({[amp |-> [j \in DOMAIN t.amp |-> u[j] * t.amp[j]], h |-> t.h] :
            t \in {s}, u \in {g}})

\* the gates of create_diffuser, in the order they are appended
DiffuserGates ==
    << "h_all", "x_all", "barrier", "h_last", "mcx", "h_last", "barrier", "x_all", "h_all" >>

ApplyGate(s, g, n) ==
    CASE g = "h_all"   -> HRange(s, n)
      [] g = "x_all"   -> XRange(s, n)
      [] g = "barrier" -> s
      [] g = "h_last"  -> HGate(s, n - 1)
      [] g = "mcx"     -> MCXGate(s, 0 .. (n - 2), n - 1)

RECURSIVE ApplyGates(_, _, _)
ApplyGates(s, gs, n) ==
    IF gs = << >> THEN s ELSE ApplyGates(ApplyGate(s, Head(gs), n), Tail(gs), n)

(* ---------------------------- instructions ----------------------------- *)

HLayer == [name |-> "h", arg |-> 0]

\* create_comparison_oracle(): the instruction marking index |diff|
create_comparison_oracle == [name |-> "Oracle(>=)", arg |-> Abs(diff)]

\* create_diffuser(): the instruction wrapping the diffuser's gates
SecondOracle == [name |-> "Oracle(>=)", arg |-> Abs(diff)]

create_diffuser == [name |-> "Diffuser", arg |-> 0]

MeasureAll == [name |-> "measure", arg |-> 0]

\* one instruction of the circuit applied to the state vector
ApplyInstr(s, ins, n) ==
    CASE ins.name = "h"          -> HRange(s, n)
      [] ins.name = "Oracle(>=)" -> Unitary(s, gate_matrix(n, ins.arg))
      [] ins.name = "Diffuser"   -> ApplyGates(s, DiffuserGates, n)

\* The reference sampler accepts a circuit only when all of its classical
\* bits are written by final measurements: one measure_all, at the end.
Samplable(c) ==
    /\ Len(c) >= 1
    /\ c[Len(c)].name = "measure"
    /\ \A j \in 1 .. (Len(c) - 1) : c[j].name # "measure"

\* quasi_dists[0].items(): the outcomes of non-zero probability, in
\* ascending order, each with the numerator of its probability over 2^h
RECURSIVE Items(_, _, _)
Items(a, i, N) ==
    IF i = N THEN << >>
    ELSE (IF a[i] # 0 THEN << << i, a[i] * a[i] >> >> ELSE << >>) \o Items(a, i + 1, N)

QuasiDist(s, n) == Items(s.amp, 0, 2 ^ n)

(* --------------------------- pure functions ---------------------------- *)

\* max(abs(diff).bit_length(), 2)
RegisterWidthOffByOne(d) == Max(bit_length(Abs(d)) - 1, 2)

RegisterWidth(d) == Max(bit_length(Abs(d)), 2)

\* int(np.floor(np.pi / 4 * np.sqrt(N))) for N = 2 ** n, which is all that
\* nstates can be. For even n it is floor(pi 2^(n/2 - 2)), for odd n it is
\* floor((pi sqrt(2) / 4) 2^((n-1)/2)); 843314856 is floor(pi 2^28) and
\* 596313653 is floor((pi sqrt(2) / 4) 2^29), so both are exact up to n = 59,
\* where the double-precision product of line 70 has the same floor.
IterationCountCeil(N) ==
    The({IF n % 2 = 0 THEN 843314856 \div (2 ^ (30 - n \div 2)) + 1
                      ELSE 596313653 \div (2 ^ (29 - n \div 2)) + 1 : n \in {BigLog2(N)}})

IterationCount(N) ==
    The({IF n % 2 = 0 THEN 843314856 \div (2 ^ (30 - n \div 2))
                      ELSE 596313653 \div (2 ^ (29 - n \div 2)) : n \in {BigLog2(N)}})

\* np.eye(2 ** nqubits, dtype=int): 2^(2n+3) bytes. From n = 30 on that is more
\* than an array may hold and the call raises; up to SureAllocQubits it
\* succeeds; in between it depends on the machine's memory.
EyeOutcomes(n) ==
    IF n >= 30 THEN {"raise"}
    ELSE IF n > SureAllocQubits THEN {"ok", "raise"}
    ELSE {"ok"}

\* value > max_value
BetterOrEqual(value, best) == value >= best

Better(value, best) == value > best

\* return self.diff >= 0
ReturnFromMeasurement == max_key = Abs(diff)

ReturnValue == diff >= 0

(* -------------------------------- Init --------------------------------- *)

Numbers == (-MaxNum) .. MaxNum

\* everything but the two arguments, at entry to __init__
Blank ==
    /\ diff = 0 /\ nqubits = 0 /\ nstates = << >> /\ qc = << >>
    /\ pc = "init_diff" /\ calls = 0 /\ niterations = 0 /\ it = 0
    /\ psi = Ground(2) /\ ip = 1 /\ vin = Ground(2)
    /\ counts = << >> /\ k = 1 /\ max_key = NoKey /\ max_value = NegInf
    /\ result = FALSE

Init ==
    /\ number_1 \in Numbers
    /\ number_2 \in Numbers
    /\ Blank

(* ------------------------------ __init__ ------------------------------- *)

\* self.diff = number_1 - number_2
InitDiff ==
    /\ pc = "init_diff"
    /\ diff' = number_1 - number_2
    /\ pc' = "init_nqubits"
    /\ UNCHANGED <<number_1, number_2, nqubits, nstates, qc, calls, niterations, it,
                   psi, ip, vin, counts, k, max_key, max_value, result>>

\* self.nqubits = max(abs(self.diff).bit_length(), 2)
InitNqubits ==
    /\ pc = "init_nqubits"
    /\ nqubits' = RegisterWidth(diff)
    /\ pc' = "init_nstates"
    /\ UNCHANGED <<number_1, number_2, diff, nstates, qc, calls, niterations, it,
                   psi, ip, vin, counts, k, max_key, max_value, result>>

\* self.nstates = 2 ** self.nqubits
InitNstates ==
    /\ pc = "init_nstates"
    /\ nstates' = BigPow2(nqubits)
    /\ pc' = "init_qc"
    /\ UNCHANGED <<number_1, number_2, diff, nqubits, qc, calls, niterations, it,
                   psi, ip, vin, counts, k, max_key, max_value, result>>

\* self.qc = QuantumCircuit(self.nqubits)
InitQc ==
    /\ pc = "init_qc"
    /\ qc' = << >>
    /\ pc' = "idle"
    /\ UNCHANGED <<number_1, number_2, diff, nqubits, nstates, calls, niterations, it,
                   psi, ip, vin, counts, k, max_key, max_value, result>>

(* ------------------------ check_larger_or_equal ------------------------ *)

\* a caller invokes the method on the constructed object
Call ==
    /\ pc \in {"idle", "done", "raised"}
    /\ calls < MaxCalls
    /\ calls' = calls + 1
    /\ pc' = "h"
    /\ UNCHANGED <<number_1, number_2, diff, nqubits, nstates, qc, niterations, it,
                   psi, ip, vin, counts, k, max_key, max_value, result>>

\* self.qc.h(range(self.nqubits))
HStep ==
    /\ pc = "h"
    /\ qc' = Append(qc, HLayer)
    /\ pc' = "niter"
    /\ UNCHANGED <<number_1, number_2, diff, nqubits, nstates, calls, niterations, it,
                   psi, ip, vin, counts, k, max_key, max_value, result>>

\* niterations = int(np.floor(np.pi / 4 * np.sqrt(self.nstates)))
NiterStep ==
    /\ pc = "niter"
    /\ niterations' = IterationCount(nstates)
    /\ it' = 0
    /\ pc' = "loop"
    /\ UNCHANGED <<number_1, number_2, diff, nqubits, nstates, qc, calls,
                   psi, ip, vin, counts, k, max_key, max_value, result>>

\* loop body, first statement: self.qc.append(self.create_comparison_oracle(), ...);
\* create_comparison_oracle raises when its matrix cannot be allocated
OracleStep ==
    /\ pc = "loop"
    /\ it < niterations
    /\ \E outcome \in EyeOutcomes(nqubits) :
          IF outcome = "ok"
          THEN /\ qc' = Append(qc, create_comparison_oracle)
               /\ pc' = "diffuser"
          ELSE /\ pc' = "raised"
               /\ UNCHANGED qc
    /\ UNCHANGED <<number_1, number_2, diff, nqubits, nstates, calls, niterations, it,
                   psi, ip, vin, counts, k, max_key, max_value, result>>

\* loop body, second statement: self.qc.append(self.create_diffuser(), ...)
DiffuserStep ==
    /\ pc = "diffuser"
    /\ qc' = Append(qc, create_diffuser)
    /\ it' = it + 1
    /\ pc' = "loop"
    /\ UNCHANGED <<number_1, number_2, diff, nqubits, nstates, calls, niterations,
                   psi, ip, vin, counts, k, max_key, max_value, result>>

\* loop exhausted: self.qc.measure_all()
MeasureStep ==
    /\ pc = "loop"
    /\ it >= niterations
    /\ qc' = Append(qc, MeasureAll)
    /\ pc' = "sample"
    /\ UNCHANGED <<number_1, number_2, diff, nqubits, nstates, calls, niterations, it,
                   psi, ip, vin, counts, k, max_key, max_value, result>>

\* sampler.run(self.qc): the circuit is accepted and its simulation starts
\* from the ground state, or it is refused and the call raises
SamplerRun ==
    /\ pc = "sample"
    /\ IF Samplable(qc)
       THEN /\ psi' = Ground(nqubits)
            /\ ip' = 1
            /\ pc' = "sim"
       ELSE /\ pc' = "raised"
            /\ UNCHANGED <<psi, ip>>
    /\ UNCHANGED <<number_1, number_2, diff, nqubits, nstates, qc, calls, niterations, it,
                   vin, counts, k, max_key, max_value, result>>

\* the sampler applies the next instruction of the circuit
SimStep ==
    /\ pc = "sim"
    /\ qc[ip].name # "measure"
    /\ psi' = ApplyInstr(psi, qc[ip], nqubits)
    /\ ip' = ip + 1
    /\ UNCHANGED <<number_1, number_2, diff, nqubits, nstates, qc, pc, calls, niterations,
                   it, vin, counts, k, max_key, max_value, result>>

\* .result(); counts = result.quasi_dists[0]; max_key = None; max_value = -inf
SimDone ==
    /\ pc = "sim"
    /\ qc[ip].name = "measure"
    /\ counts' = QuasiDist(psi, nqubits)
    /\ k' = 1
    /\ max_key' = NoKey
    /\ max_value' = NegInf
    /\ pc' = "argmax"
    /\ UNCHANGED <<number_1, number_2, diff, nqubits, nstates, qc, calls, niterations, it,
                   psi, ip, vin, result>>

\* one pass of: for key, value in counts.items(): if value > max_value: ...
ArgmaxStep ==
    /\ pc = "argmax"
    /\ k <= Len(counts)
    /\ IF Better(counts[k][2], max_value)
       THEN /\ max_key' = counts[k][1]
            /\ max_value' = counts[k][2]
       ELSE UNCHANGED <<max_key, max_value>>
    /\ k' = k + 1
    /\ UNCHANGED <<number_1, number_2, diff, nqubits, nstates, qc, pc, calls, niterations,
                   it, psi, ip, vin, counts, result>>

\* return self.diff >= 0
Return ==
    /\ pc = "argmax"
    /\ k > Len(counts)
    /\ result' = ReturnValue
    /\ pc' = "done"
    /\ UNCHANGED <<number_1, number_2, diff, nqubits, nstates, qc, calls, niterations, it,
                   psi, ip, vin, counts, k, max_key, max_value>>

\* the steps a started constructor or call takes by itself
RunStep ==
    \/ InitDiff \/ InitNqubits \/ InitNstates \/ InitQc
    \/ HStep \/ NiterStep \/ OracleStep \/ DiffuserStep \/ MeasureStep
    \/ SamplerRun \/ SimStep \/ SimDone \/ ArgmaxStep \/ Return

Next == RunStep \/ Call

Spec == Init /\ [][Next]_vars

\* the program is sequential: a step that can be taken is taken
FairSpec == Init /\ [][Next]_vars /\ WF_vars(RunStep)

(* ------------- the constructor on a difference of 31 bits -------------- *)

\* the small pairs, and BigNum against a number that is not positive
InitWide ==
    /\ \/ number_1 \in Numbers /\ number_2 \in Numbers
       \/ number_1 = BigNum /\ number_2 \in (-MaxNum) .. 0
    /\ Blank

SpecWide == InitWide /\ [][Next]_vars

(* ---------- circuit construction on differences up to 8 bits ----------- *)

InitIter ==
    /\ number_1 \in 0 .. MaxIterNum
    /\ number_2 \in {0, MaxIterNum}
    /\ Blank

\* the constructor and the circuit-building part of check_larger_or_equal
NextIter ==
    \/ InitDiff \/ InitNqubits \/ InitNstates \/ InitQc \/ Call
    \/ HStep \/ NiterStep \/ OracleStep \/ DiffuserStep \/ MeasureStep

SpecIter == InitIter /\ [][NextIter]_vars

(* ------------- the diffuser's gates on arbitrary vectors --------------- *)

\* e_j + c e_l for j # l and c in -1..1, and the uniform vector with one
\* sign flipped
InputVectors(n) ==
    LET D == 0 .. (2 ^ n - 1)
    IN  {[i \in D |-> IF i = j THEN 1 ELSE IF i = l THEN c ELSE 0] :
             j \in D, l \in D, c \in -1 .. 1}
        \cup {[i \in D |-> IF i = j THEN -1 ELSE 1] : j \in D}

InitDiffuser ==
    /\ number_1 = 0 /\ number_2 = 0 /\ diff = 0
    /\ nqubits \in 2 .. MaxDiffQubits
    /\ nstates = BigPow2(nqubits)
    /\ qc = << >> /\ pc = "diffuser_gates" /\ calls = 0 /\ niterations = 0 /\ it = 0
    /\ \E v \in InputVectors(nqubits) : psi = [amp |-> v, h |-> 0]
    /\ vin = psi
    /\ ip = 1
    /\ counts = << >> /\ k = 1 /\ max_key = NoKey /\ max_value = NegInf
    /\ result = FALSE

\* the next gate of create_diffuser acts on the vector
DiffuserGateStep ==
    /\ pc = "diffuser_gates"
    /\ psi' = ApplyGate(psi, DiffuserGates[ip], nqubits)
    /\ ip' = ip + 1
    /\ pc' = IF ip = Len(DiffuserGates) THEN "diffused" ELSE "diffuser_gates"
    /\ UNCHANGED <<number_1, number_2, diff, nqubits, nstates, qc, calls, niterations, it,
                   vin, counts, k, max_key, max_value, result>>

SpecDiffuser == InitDiffuser /\ [][DiffuserGateStep]_vars

(* ------- the most-likely-outcome scan on arbitrary distributions ------- *)

\* lists of (index, probability) entries with distinct indices and non-zero
\* probabilities, in any order
Distributions ==
    {c \in UNION {[1 .. L -> (0 .. 3) \X (1 .. MaxProbVal)] : L \in 1 .. MaxEntries} :
        \A i, j \in DOMAIN c : i # j => c[i][1] # c[j][1]}

InitArgmax ==
    /\ number_1 \in 0 .. 1 /\ number_2 = 1
    /\ diff = number_1 - number_2
    /\ nqubits = 2 /\ nstates = BigPow2(2)
    /\ qc = << HLayer, [name |-> "Oracle(>=)", arg |-> Abs(diff)],
               [name |-> "Diffuser", arg |-> 0], MeasureAll >>
    /\ pc = "argmax" /\ calls = 1 /\ niterations = 1 /\ it = 1
    /\ psi = Ground(2) /\ ip = 4 /\ vin = Ground(2)
    /\ counts \in Distributions
    /\ k = 1 /\ max_key = NoKey /\ max_value = NegInf
    /\ result = FALSE

NextArgmax == ArgmaxStep \/ Return

SpecArgmax == InitArgmax /\ [][NextArgmax]_vars

(* ======================= properties of the model ======================= *)

\* the integer written by binary digits, least significant first
RECURSIVE BigValue(_)
BigValue(N) == IF N = << >> THEN 0 ELSE Head(N) + 2 * BigValue(Tail(N))

\* nstates as an integer, for registers of fewer than 31 qubits
NStates == BigValue(nstates)

Names(c) == [j \in 1 .. Len(c) |-> c[j].name]

\* the first p instructions of a Grover circuit: the Hadamard layer, then
\* oracle and diffuser in alternation
GroverPrefix(p) ==
    [j \in 1 .. p |-> IF j = 1 THEN "h" ELSE IF j % 2 = 0 THEN "Oracle(>=)" ELSE "Diffuser"]

RECURSIVE SumTo(_, _)
SumTo(f, i) == IF i < 0 THEN 0 ELSE f[i] + SumTo(f, i - 1)

\* the sum of a function on 0..N-1
Sum(f, N) == SumTo(f, N - 1)

Squares(a) == [i \in DOMAIN a |-> a[i] * a[i]]

\* C1: the value returned by check_larger_or_equal on a comparator built
\* from a and b is true exactly when a >= b and false exactly when a < b,
\* whatever outcome the scan of the sampled distribution found most likely.
C1_ResultIsComparison ==
    pc = "done" => (result = (number_1 >= number_2))

C1_Witness ==
    /\ pc = "done"
    /\ number_1 < number_2
    /\ max_key = Abs(diff)
    /\ result = FALSE

C2_Constructed == pc \notin {"init_diff", "init_nqubits", "init_nstates"}

C2_Shape ==
    C2_Constructed =>
        /\ diff = number_1 - number_2
        /\ nqubits >= 2
        /\ Abs(diff) < 2 ^ nqubits
        /\ (nqubits > 2 => 2 ^ (nqubits - 1) <= Abs(diff))
        /\ NStates = 2 ^ nqubits
        /\ 0 <= Abs(diff) /\ Abs(diff) < NStates
        /\ \A j \in 1 .. Len(qc) :
              qc[j].name = "Oracle(>=)" => qc[j].arg = Abs(diff) /\ qc[j].arg < NStates

C2_Stable ==
    C2_Constructed => (diff' = diff /\ nqubits' = nqubits /\ nstates' = nstates)

\* C2: construction yields diff = a - b, the register width
\* n = max(bitLength(|diff|), 2) (the least n >= 2 with |diff| < 2^n), and
\* N = 2^n; the index |diff| marked by every oracle lies in [0, N); and diff,
\* n and N never change once set.
C2_WidthAndMark == [] C2_Shape /\ [][C2_Stable]_vars

C2_Witness ==
    /\ pc = "done"
    /\ Abs(diff) = 8
    /\ nqubits = 4
    /\ NStates = 16
    /\ qc[2].arg = 8

C3_Order ==
    calls = 1 =>
        /\ pc # "raised"
        /\ pc = "niter" => Names(qc) = GroverPrefix(1)
        /\ pc = "loop" => it <= niterations /\ Names(qc) = GroverPrefix(1 + 2 * it)
        /\ pc = "diffuser" => it < niterations /\ Names(qc) = GroverPrefix(2 + 2 * it)
        /\ pc \in {"sample", "sim", "argmax", "done"} =>
              Names(qc) = GroverPrefix(1 + 2 * niterations) \o << "measure" >>
        /\ pc = "sim" => ip \in 1 .. Len(qc)

\* C3: in a run of check_larger_or_equal on a new comparator the circuit
\* grows as one Hadamard layer, then niterations times an oracle directly
\* followed by a diffuser, then the measurement, which comes only after the
\* last diffuser; and the run reaches its end.
C3_RunOrder == [] C3_Order /\ ((pc = "h" /\ calls = 1) ~> (pc = "done"))

C3_Witness ==
    /\ pc = "done"
    /\ calls = 1
    /\ niterations = 3
    /\ Len(qc) = 8

\* the closed form: N times (2 mean(v) - v[i])
ReflectAboutMean(v, N) == [i \in 0 .. (N - 1) |-> 2 * Sum(v, N) - N * v[i]]

\* 2^(h/2), the factor psi carries after an even number of halvings
Scale(s) == 2 ^ (s.h \div 2)

\* C4 as stated: the gate sequence of the diffuser maps every vector to the
\* reflection about the mean, v[i] <- 2 mean(v) - v[i], sign included.
C4_GatesEqualReflection ==
    pc = "diffused" =>
        /\ psi.h % 2 = 0
        /\ \A i \in 0 .. (NStates - 1) :
              psi.amp[i] * NStates = ReflectAboutMean(vin.amp, NStates)[i] * Scale(psi)

\* C4 as the gates have it: the gate sequence of the diffuser maps every
\* vector to the negated reflection about the mean, v[i] <- v[i] - 2 mean(v)
\* (that is I - 2|s><s|), so each outcome has the probability the reflection
\* gives it.
C4_GatesEqualNegatedReflection ==
    pc = "diffused" =>
        /\ psi.h % 2 = 0
        /\ \A i \in 0 .. (NStates - 1) :
              /\ psi.amp[i] * NStates = - ReflectAboutMean(vin.amp, NStates)[i] * Scale(psi)
              /\ (psi.amp[i] * NStates) * (psi.amp[i] * NStates)
                    = (ReflectAboutMean(vin.amp, NStates)[i] * Scale(psi))
                         * (ReflectAboutMean(vin.amp, NStates)[i] * Scale(psi))

C4_Witness ==
    /\ pc = "diffused"
    /\ nqubits = 5
    /\ Sum(vin.amp, NStates) # 0
    /\ \E i \in 0 .. (NStates - 1) : psi.amp[i] # 0 /\ vin.amp[i] = 0

\* C5: on two qubits, after the Hadamard layer and one oracle and diffuser,
\* the marked index |diff| has a strictly larger probability than every other
\* index, and the scan finds it as the most likely outcome.
C5_MarkedWins ==
    (nqubits = 2 /\ pc \in {"argmax", "done"}) =>
        /\ niterations = 1
        /\ ip = 4
        /\ \A i \in 0 .. 3 :
              i # Abs(diff) =>
                  psi.amp[Abs(diff)] * psi.amp[Abs(diff)] > psi.amp[i] * psi.amp[i]
        /\ pc = "done" => max_key = Abs(diff)

C5_Witness ==
    /\ pc = "done"
    /\ nqubits = 2
    /\ Abs(diff) = 2
    /\ max_key = 2

\* C6: the squared amplitudes of the state vector sum to 1 in the ground
\* state and after every instruction the sampler applies: the Hadamard
\* layer, each oracle and each diffuser.
C6_Normalised ==
    Sum(Squares(psi.amp), Cardinality(DOMAIN psi.amp)) = 2 ^ psi.h

C6_Witness ==
    /\ pc = "sim"
    /\ nqubits = 4
    /\ ip = 6
    /\ psi.h > 0
    /\ psi.amp[Abs(diff)] # psi.amp[(Abs(diff) + 1) % 16]

\* C7: the loop runs k = floor(pi/4 sqrt(N)) times, the k with
\* 16 k^2 <= pi^2 N < 16 (k+1)^2 (9.8696 < pi^2 < 9.8697): k is 1 for N = 4,
\* 3 for N = 16, 12 for N = 256, and never 0.
C7_IterationCount ==
    pc \in {"loop", "diffuser", "sample"} =>
        /\ 160000 * niterations * niterations <= 98696 * NStates
        /\ 98697 * NStates < 160000 * (niterations + 1) * (niterations + 1)
        /\ NStates = 4 => niterations = 1
        /\ NStates = 16 => niterations = 3
        /\ NStates = 256 => niterations = 12
        /\ niterations >= 1
        /\ it <= niterations
        /\ pc = "sample" => Len(qc) = 2 * niterations + 2

C7_Witness ==
    /\ pc = "sample"
    /\ NStates = 256
    /\ niterations = 12
    /\ Len(qc) = 26

\* C8: a comparator whose register width exceeds the defensive upper bound
\* of 30 is rejected with a ConfigurationError as soon as the width is known,
\* before anything of size 2^n is built.
C8_WideRegisterRejected ==
    (pc \notin {"init_diff", "init_nqubits"} /\ nqubits > 30) =>
        pc = "ConfigurationError"

IsMaximal(j) == \A i \in 1 .. Len(counts) : counts[i][2] <= counts[j][2]

\* C9 as stated: the scan ends with an index of maximal probability, the
\* lowest one among those sharing it, in whatever order the entries come.
C9_LowestMaximal ==
    pc = "done" =>
        \E j \in 1 .. Len(counts) :
            /\ max_key = counts[j][1]
            /\ IsMaximal(j)
            /\ \A i \in 1 .. Len(counts) :
                  counts[i][2] = counts[j][2] => counts[j][1] <= counts[i][1]

Ascending == \A i, j \in 1 .. Len(counts) : i < j => counts[i][1] < counts[j][1]

\* C9 as the scan has it: it ends with an index of maximal probability, the
\* first reported one among those sharing it; that is the lowest one when
\* the entries come in ascending index order.
C9_FirstSeenMaximal ==
    pc = "done" =>
        \E j \in 1 .. Len(counts) :
            /\ max_key = counts[j][1]
            /\ max_value = counts[j][2]
            /\ IsMaximal(j)
            /\ \A i \in 1 .. (j - 1) : counts[i][2] < counts[j][2]
            /\ Ascending =>
                  \A i \in 1 .. Len(counts) :
                      counts[i][2] = counts[j][2] => counts[j][1] <= counts[i][1]

C9_Witness ==
    /\ pc = "done"
    /\ Len(counts) = 3
    /\ counts[1][2] = counts[2][2]
    /\ counts[3][2] < counts[1][2]
    /\ counts[1][1] > counts[2][1]
    /\ max_key = counts[1][1]

\* C10: whenever a call hands its circuit to the sampler, the circuit holds
\* one Hadamard layer, niterations oracle and diffuser pairs and one
\* measurement, and nothing of an earlier call.
C10_FreshCircuitPerCall ==
    pc = "sample" =>
        /\ Len(qc) = 2 * niterations + 2
        /\ Names(qc) = GroverPrefix(1 + 2 * niterations) \o << "measure" >>

====
